---- MODULE Spec2Model ----
(***************************************************************************)
(* Model of the training / evaluation / checkpointing loop of              *)
(* runs/train_lstmcnn.py.                                                  *)
(*                                                                         *)
(* The neural model is a black box: an evaluation pass yields a score      *)
(* triple (fscore, prec, rec) drawn from a small set.  Files are modelled  *)
(* by their status, the global_step at which they were written and, for    *)
(* the checkpoint, what is pickled into it.                                 *)
(*                                                                         *)
(* Spec is the training run.  SpecScorer is one pass of the entity scorer  *)
(* (util.calculate_labeling_scores) over bounded tag lists.                *)
(***************************************************************************)
EXTENDS Integers, Sequences, FiniteSets, TLC

\* ------------------------------------------------------------------ bounds
MaxTrainLen == 3
MaxBatchSize == 2
MaxEpoch == 2
MaxEvalStep == 2
MaxTagLen == 2
MaxRecords == 2

\* ------------------------------------------------------------- score values
Score(p, r, f) == [p |-> p, r |-> r, f |-> f]
ZeroScore == Score(0, 0, 0)
\* score triples a dev pass can yield (f is the harmonic mean of p and r)
DevScores == {Score(0, 0, 0), Score(10, 10, 10), Score(30, 15, 20),
              Score(15, 15, 15), Score(25, 25, 25)}
\* score triples a test pass can yield
TestScores == {Score(5, 5, 5), Score(12, 6, 8), Score(60, 20, 30),
               Score(18, 9, 12)}

\* ------------------------------------------------------------------- state
VARIABLES
    train_len,          \* len(train_set)
    batch_size,         \* args.batch_size
    max_epoch,          \* args.max_epoch
    eval_step_arg,      \* args.eval_step
    epoch,              \* epochs completed (the for-loop variable)
    batch_idx,          \* mini-batches consumed in the current epoch
    global_step,
    pc,                 \* position of the single control thread
    error,              \* why the process stopped, "none" while it runs
    best_scores,        \* [dev |-> score, test |-> score]
    best_epoch,
    results,            \* results of the latest evaluation pass
    score,              \* (fscore, prec, rec) of the latest pass
    lr,                 \* optimizer learning rate, see LrScale
    best_model_file,
    dev_result_file,
    test_result_file,
    \* observers (history variables, not program state)
    pre,                \* snapshot taken when the current evaluation began
    dev_measured,       \* dev scores measured by the current evaluation
    eval_count,         \* evaluations entered so far
    epoch_evals,        \* evaluations entered in the current epoch
    last_eval_batch,    \* batch_idx at the latest evaluation of this epoch
    n_improving,        \* evaluations so far whose dev F1 beat the best
    max_dev_seen,       \* highest dev F1 any dev pass has measured so far
    scen,               \* progress along the documented example scenario
    \* the entity scorer, run on one evaluation pass
    sc_pc,              \* "idle", "scored" or "final"
    sc_pred,            \* predicted tags of the record scored last
    sc_gold,            \* gold tags of the record scored last
    sc_len,             \* its count of real (non-padding) positions
    sc_pred_spans,      \* extract_entities(sc_pred, sc_len)
    sc_gold_spans,      \* extract_entities(sc_gold, sc_len)
    sc_acc,             \* the scoring accumulator
    sc_n,               \* records scored in this pass
    sc_exact,           \* observer: every record had sc_pred = sc_gold
    sc_out              \* finalize(sc_acc) once the pass is final

vars == <<train_len, batch_size, max_epoch, eval_step_arg, epoch, batch_idx,
          global_step, pc, error, best_scores, best_epoch, results, score,
          lr, best_model_file, dev_result_file, test_result_file, pre,
          dev_measured, eval_count, epoch_evals, last_eval_batch,
          n_improving, max_dev_seen, scen, sc_pc, sc_pred, sc_gold, sc_len,
          sc_pred_spans, sc_gold_spans, sc_acc, sc_n, sc_exact, sc_out>>

scorer == <<sc_pc, sc_pred, sc_gold, sc_len, sc_pred_spans, sc_gold_spans,
            sc_acc, sc_n, sc_exact, sc_out>>
config == <<train_len, batch_size, max_epoch, eval_step_arg>>
observers == <<pre, dev_measured, eval_count, epoch_evals, last_eval_batch,
               n_improving, max_dev_seen, scen>>
files == <<best_model_file, dev_result_file, test_result_file>>

\* ------------------------------------------------------- derived quantities
\* batch_step = len(train_set) // args.batch_size
batch_step == train_len \div batch_size
\* total_step = batch_step * args.max_epoch
total_step == batch_step * max_epoch
\* eval_step = batch_step if args.eval_step == -1 else args.eval_step
eval_step == IF eval_step_arg = -1 THEN batch_step ELSE eval_step_arg

\* mini-batches one pass of DataLoader(train_set, batch_size) yields: the
\* loader keeps the last, shorter batch
NumBatches == (train_len + batch_size - 1) \div batch_size

\* mutant: the final-step disjunct of the trigger is dropped
EvalTriggerModOnly(gs) == gs % eval_step = 0

\* global_step % eval_step == 0 or global_step == total_step (eval_step # 0)
EvalTrigger(gs) == (gs % eval_step = 0) \/ (gs = total_step)

\* mutant: a dev F1 equal to the best counts as an improvement
IsImprovementOrEqual(f) == f >= best_scores.dev.f

\* fscore > best_scores['dev']['f']
IsImprovement(f) == f > best_scores.dev.f

\* mutant: the test scores are tracked by their own best
RecordTestIfHigher == score.f > best_scores.test.f

\* if best_epoch:
RecordTest == best_epoch

\* the learning rate is kept as an integer number of units of
\* args.lr / (100 * LrScale), so that the linear decay is exact
LrScale == IF total_step = 0 THEN 1 ELSE total_step
BaseLr == 100 * LrScale
\* mutant: no floor under the decay
MinLrZero == 0 * LrScale
MinLr == LrScale
Max(a, b) == IF a >= b THEN a ELSE b
\* max(min_lr, base_lr - (base_lr - min_lr) * step / total_steps)
calculate_lr(step) == Max(MinLr, BaseLr - (100 - 1) * step)

\* ------------------------------------------------------------------- files
NoFile == [status |-> "absent", step |-> 0]
NoCheckpoint == [status |-> "absent", step |-> 0, model |-> 0,
                 optimizer |-> [step |-> 0, lr |-> 0],
                 scores |-> [dev |-> ZeroScore, test |-> ZeroScore]]

\* the bundle built once before training and handed to torch.save:
\*   model:     model.state_dict() holds the parameter tensors themselves,
\*              which optimizer.step() updates in place, so what is pickled
\*              is the parameters after global_step optimizer steps;
\*   optimizer: optimizer.state_dict() is a copy made when the bundle was
\*              built: no step taken yet, lr = args.lr;
\*   scores:    the best_scores object itself.
state == [model |-> global_step,
          optimizer |-> [step |-> 0, lr |-> BaseLr],
          scores |-> best_scores]
NoResults == [set |-> "none", step |-> 0, score |-> ZeroScore]

Snapshot == [best |-> best_scores, ckpt |-> best_model_file,
             dev |-> dev_result_file, test |-> test_result_file, lr |-> lr]

\* -------------------------------------------------------------------- Init
\* the scorer before a pass: nothing accumulated
NoAcc == [predicted |-> 0, gold |-> 0, correct |-> 0]
ScorerIdle ==
    /\ sc_pc = "idle"
    /\ sc_pred = <<>>
    /\ sc_gold = <<>>
    /\ sc_len = 0
    /\ sc_pred_spans = <<>>
    /\ sc_gold_spans = <<>>
    /\ sc_acc = NoAcc
    /\ sc_n = 0
    /\ sc_exact = TRUE
    /\ sc_out = ZeroScore

\* the state of the script when the training loop is about to start
TrainingStart ==
    /\ epoch = 0
    /\ batch_idx = 0
    /\ global_step = 0
    /\ pc = "Running"
    /\ error = "none"
    /\ best_scores = [dev |-> ZeroScore, test |-> ZeroScore]
    /\ best_epoch = FALSE
    /\ results = NoResults
    /\ score = ZeroScore
    /\ lr = BaseLr
    /\ best_model_file = NoCheckpoint
    /\ dev_result_file = NoFile
    /\ test_result_file = NoFile
    /\ pre = Snapshot
    /\ dev_measured = ZeroScore
    /\ eval_count = 0
    /\ epoch_evals = 0
    /\ last_eval_batch = 0
    /\ n_improving = 0
    /\ max_dev_seen = 0
    /\ scen = 0

Init ==
    /\ train_len \in 1..MaxTrainLen
    /\ batch_size \in 1..MaxBatchSize
    /\ max_epoch \in 1..MaxEpoch
    /\ eval_step_arg \in {-1} \cup (1..MaxEvalStep)
    /\ TrainingStart
    /\ ScorerIdle

\* ---------------------------------------------------------------- training
\* the documented example: dev F1 10, 20, 15, 25 with test F1 5, 8, 30, 12
ExampleDev == <<10, 20, 15, 25>>
ExampleTest == <<5, 8, 30, 12>>
ScenOff == 0 - 1
ScenNext(devF, testF) ==
    IF scen >= 0 /\ scen < Len(ExampleDev)
       /\ devF = ExampleDev[scen + 1] /\ testF = ExampleTest[scen + 1]
    THEN scen + 1 ELSE ScenOff

\* one mini-batch: global_step += 1, the optimizer step, then the trigger
\* of line 161 (a ZeroDivisionError when eval_step is 0)
TrainStep ==
    /\ pc = "Running"
    /\ epoch < max_epoch
    /\ batch_idx < NumBatches
    /\ global_step' = global_step + 1
    /\ batch_idx' = batch_idx + 1
    /\ IF eval_step = 0
       THEN /\ pc' = "Crashed"
            /\ error' = "ZeroDivisionError"
            /\ UNCHANGED observers
       ELSE IF EvalTrigger(global_step')
       THEN /\ pc' = "DevPass"
            /\ pre' = Snapshot
            /\ eval_count' = eval_count + 1
            /\ epoch_evals' = epoch_evals + 1
            /\ last_eval_batch' = batch_idx'
            /\ UNCHANGED <<error, dev_measured, n_improving, max_dev_seen,
                        scen>>
       ELSE /\ pc' = "Running"
            /\ UNCHANGED <<error, observers>>
    /\ UNCHANGED <<scorer, config, epoch, best_scores, best_epoch, results, score,
                   lr, files>>

\* mutant: global_step is set to 0 at the start of every epoch
EpochEndResetsStep ==
    /\ pc = "Running"
    /\ epoch < max_epoch
    /\ batch_idx = NumBatches
    /\ epoch' = epoch + 1
    /\ batch_idx' = 0
    /\ global_step' = 0
    /\ epoch_evals' = 0
    /\ last_eval_batch' = 0
    /\ UNCHANGED <<scorer, config, pc, error, best_scores, best_epoch,
                   results, score, lr, files, pre, dev_measured, eval_count,
                   n_improving, max_dev_seen, scen>>

\* the inner loop is exhausted: the per-epoch log lines, then the next epoch
EpochEnd ==
    /\ pc = "Running"
    /\ epoch < max_epoch
    /\ batch_idx = NumBatches
    /\ epoch' = epoch + 1
    /\ batch_idx' = 0
    /\ epoch_evals' = 0
    /\ last_eval_batch' = 0
    /\ UNCHANGED <<scorer, config, global_step, pc, error, best_scores, best_epoch,
                   results, score, lr, files, pre, dev_measured, eval_count,
                   n_improving, max_dev_seen, scen>>

\* range(args.max_epoch) is exhausted: the script ends
Finish ==
    /\ pc = "Running"
    /\ epoch = max_epoch
    /\ pc' = "Finished"
    /\ UNCHANGED <<scorer, config, epoch, batch_idx, global_step, error, best_scores,
                   best_epoch, results, score, lr, files, observers>>

\* -------------------------------------------------------------- evaluation
\* best_epoch = False, the pass over the dev set and its scores
DevPass ==
    /\ pc = "DevPass"
    /\ \E s \in DevScores :
         /\ results' = [set |-> "dev", step |-> global_step, score |-> s]
         /\ score' = s
         /\ dev_measured' = s
         /\ n_improving' = IF s.f > pre.best.dev.f THEN n_improving + 1
                           ELSE n_improving
         /\ max_dev_seen' = Max(max_dev_seen, s.f)
    /\ best_epoch' = FALSE
    /\ pc' = "DevUpdate"
    /\ UNCHANGED <<scorer, config, epoch, batch_idx, global_step, error, best_scores,
                   lr, files, pre, eval_count, epoch_evals, last_eval_batch,
                   scen>>

\* mutant: the test pass is run only for a step marked best
DevUpdateSkipsTest ==
    /\ pc = "DevUpdate"
    /\ IF IsImprovement(score.f)
       THEN /\ best_epoch' = TRUE
            /\ best_scores' = [best_scores EXCEPT !.dev = score]
            /\ pc' = "SaveCkptOpen"
       ELSE /\ pc' = "SetLR"
            /\ UNCHANGED <<best_epoch, best_scores>>
    /\ UNCHANGED <<scorer, config, epoch, batch_idx, global_step, error, results,
                   score, lr, files, observers>>

\* if fscore > best_scores['dev']['f']: best_epoch = True; best_scores['dev'] = ...
DevUpdate ==
    /\ pc = "DevUpdate"
    /\ IF IsImprovement(score.f)
       THEN /\ best_epoch' = TRUE
            /\ best_scores' = [best_scores EXCEPT !.dev = score]
            /\ pc' = "SaveCkptOpen"
       ELSE /\ pc' = "TestPass"
            /\ UNCHANGED <<best_epoch, best_scores>>
    /\ UNCHANGED <<scorer, config, epoch, batch_idx, global_step, error, results,
                   score, lr, files, observers>>

\* torch.save(state, best_model_file) opens the file itself for writing ...
SaveCkptOpen ==
    /\ pc = "SaveCkptOpen"
    /\ best_model_file' = [best_model_file EXCEPT !.status = "partial"]
    /\ pc' = "SaveCkptWrite"
    /\ UNCHANGED <<scorer, config, epoch, batch_idx, global_step, error, best_scores,
                   best_epoch, results, score, lr, dev_result_file,
                   test_result_file, observers>>

\* ... and pickles state into it: state['scores'] is the best_scores object
\* as it is at this moment
SaveCkptWrite ==
    /\ pc = "SaveCkptWrite"
    /\ best_model_file' = [status |-> "complete", step |-> global_step,
                           model |-> state.model,
                           optimizer |-> state.optimizer,
                           scores |-> state.scores]
    /\ pc' = "SaveDev"
    /\ UNCHANGED <<scorer, config, epoch, batch_idx, global_step, error, best_scores,
                   best_epoch, results, score, lr, dev_result_file,
                   test_result_file, observers>>

\* save_result_file(results, dev_result_file)
SaveDev ==
    /\ pc = "SaveDev"
    /\ dev_result_file' = [status |-> "complete", step |-> results.step]
    /\ pc' = "TestPass"
    /\ UNCHANGED <<scorer, config, epoch, batch_idx, global_step, error, best_scores,
                   best_epoch, results, score, lr, best_model_file,
                   test_result_file, observers>>

\* the pass over the test set and its scores, run at every evaluation
TestPass ==
    /\ pc = "TestPass"
    /\ \E s \in TestScores :
         /\ results' = [set |-> "test", step |-> global_step, score |-> s]
         /\ score' = s
         /\ scen' = ScenNext(dev_measured.f, s.f)
    /\ pc' = "TestUpdate"
    /\ UNCHANGED <<scorer, config, epoch, batch_idx, global_step, error, best_scores,
                   best_epoch, lr, files, pre, dev_measured, eval_count,
                   epoch_evals, last_eval_batch, n_improving, max_dev_seen>>

\* mutant: the test result file is written outside the if
TestUpdateAlwaysSaves ==
    /\ pc = "TestUpdate"
    /\ IF RecordTest
       THEN best_scores' = [best_scores EXCEPT !.test = score]
       ELSE UNCHANGED best_scores
    /\ pc' = "SaveTest"
    /\ UNCHANGED <<scorer, config, epoch, batch_idx, global_step, error, best_epoch,
                   results, score, lr, files, observers>>

\* if best_epoch: best_scores['test'] = ...
TestUpdate ==
    /\ pc = "TestUpdate"
    /\ IF RecordTest
       THEN /\ best_scores' = [best_scores EXCEPT !.test = score]
            /\ pc' = "SaveTest"
       ELSE /\ pc' = "SetLR"
            /\ UNCHANGED best_scores
    /\ UNCHANGED <<scorer, config, epoch, batch_idx, global_step, error, best_epoch,
                   results, score, lr, files, observers>>

\* save_result_file(results, test_result_file)
SaveTest ==
    /\ pc = "SaveTest"
    /\ test_result_file' = [status |-> "complete", step |-> results.step]
    /\ pc' = "SetLR"
    /\ UNCHANGED <<scorer, config, epoch, batch_idx, global_step, error, best_scores,
                   best_epoch, results, score, lr, best_model_file,
                   dev_result_file, observers>>

\* mutant: the decay is computed from the step within the epoch
SetLRFromBatchIdx ==
    /\ pc = "SetLR"
    /\ IF total_step = 0
       THEN /\ pc' = "Crashed"
            /\ error' = "ZeroDivisionError"
            /\ UNCHANGED lr
       ELSE /\ lr' = calculate_lr(batch_idx)
            /\ pc' = "Running"
            /\ UNCHANGED error
    /\ UNCHANGED <<scorer, config, epoch, batch_idx, global_step, best_scores,
                   best_epoch, results, score, files, observers>>

\* lr = calculate_lr(...); every param group gets it (a division by
\* total_step, which is 0 when the training set is smaller than a batch)
SetLR ==
    /\ pc = "SetLR"
    /\ IF total_step = 0
       THEN /\ pc' = "Crashed"
            /\ error' = "ZeroDivisionError"
            /\ UNCHANGED lr
       ELSE /\ lr' = calculate_lr(global_step)
            /\ pc' = "Running"
            /\ UNCHANGED error
    /\ UNCHANGED <<scorer, config, epoch, batch_idx, global_step, best_scores,
                   best_epoch, results, score, files, observers>>

\* ---------------------------------------------------------------- failures
\* torch.save raises (the file cannot be opened, or the write fails partway)
FailCkptWrite ==
    /\ pc \in {"SaveCkptOpen", "SaveCkptWrite"}
    /\ pc' = "Crashed"
    /\ error' = "IOError"
    /\ UNCHANGED <<scorer, config, epoch, batch_idx, global_step, best_scores,
                   best_epoch, results, score, lr, files, observers>>

\* save_result_file raises on the dev file, before or after truncating it
FailDevWrite ==
    /\ pc = "SaveDev"
    /\ \E st \in {dev_result_file.status, "partial"} :
         dev_result_file' = [dev_result_file EXCEPT !.status = st]
    /\ pc' = "Crashed"
    /\ error' = "IOError"
    /\ UNCHANGED <<scorer, config, epoch, batch_idx, global_step, best_scores,
                   best_epoch, results, score, lr, best_model_file,
                   test_result_file, observers>>

\* the test pass raises
FailTestPass ==
    /\ pc = "TestPass"
    /\ pc' = "Crashed"
    /\ error' = "IOError"
    /\ UNCHANGED <<scorer, config, epoch, batch_idx, global_step, best_scores,
                   best_epoch, results, score, lr, files, observers>>

\* save_result_file raises on the test file, before or after truncating it
FailTestWrite ==
    /\ pc = "SaveTest"
    /\ \E st \in {test_result_file.status, "partial"} :
         test_result_file' = [test_result_file EXCEPT !.status = st]
    /\ pc' = "Crashed"
    /\ error' = "IOError"
    /\ UNCHANGED <<scorer, config, epoch, batch_idx, global_step, best_scores,
                   best_epoch, results, score, lr, best_model_file,
                   dev_result_file, observers>>

\* the process is terminated from outside, at any point of the run
Terminate ==
    /\ pc \notin {"Finished", "Crashed", "Killed"}
    /\ pc' = "Killed"
    /\ error' = "Terminated"
    /\ UNCHANGED <<scorer, config, epoch, batch_idx, global_step, best_scores,
                   best_epoch, results, score, lr, files, observers>>

Evaluate ==
    \/ DevPass \/ DevUpdate \/ SaveCkptOpen \/ SaveCkptWrite \/ SaveDev
    \/ TestPass \/ TestUpdate \/ SaveTest \/ SetLR

Fail ==
    \/ FailCkptWrite \/ FailDevWrite \/ FailTestPass \/ FailTestWrite
    \/ Terminate

Next == TrainStep \/ EpochEnd \/ Finish \/ Evaluate \/ Fail

Spec == Init /\ [][Next]_vars

\* ----------------------------------------------------------- entity scorer
\* (util.calculate_labeling_scores, called at lines 172 and 191)
\* tags of the BIO scheme over one entity type
TagO == [bio |-> "O", type |-> ""]
TagB == [bio |-> "B", type |-> "T"]
TagI == [bio |-> "I", type |-> "T"]
Tags == {TagO, TagB, TagI}
\* tag lists as the data set pads them
TagSeqs == [1..MaxTagLen -> Tags]

NoOpen == [type |-> "", start |-> 0 - 1]
Span(type, start, end) == [type |-> type, start |-> start, end |-> end]
\* close the open span, if any, at position i
Close(open, i, out) ==
    IF open # NoOpen THEN Append(out, Span(open.type, open.start, i))
    ELSE out

\* the scan of positions i .. length-1 (0-based) with the open span and
\* the spans closed so far
RECURSIVE Scan(_, _, _, _, _)
Scan(tags, length, i, open, out) ==
    IF i >= length THEN Close(open, length, out)
    ELSE LET t == tags[i + 1] IN
         IF t.bio = "O"
         THEN Scan(tags, length, i + 1, NoOpen, Close(open, i, out))
         ELSE IF t.bio = "B"
         THEN Scan(tags, length, i + 1, [type |-> t.type, start |-> i],
                   Close(open, i, out))
         ELSE IF open # NoOpen /\ open.type = t.type
         THEN Scan(tags, length, i + 1, open, out)
         ELSE Scan(tags, length, i + 1, [type |-> t.type, start |-> i],
                   Close(open, i, out))

\* mutant: the scan runs over the padding too
extract_entities_padded(tags, length) == Scan(tags, Len(tags), 0, NoOpen, <<>>)

extract_entities(tags, length) == Scan(tags, length, 0, NoOpen, <<>>)

SpanSet(spans) == {spans[i] : i \in 1..Len(spans)}

\* one record of score_pass: micro-averaged counts
Accumulate(acc, pred_spans, gold_spans) ==
    [predicted |-> acc.predicted + Len(pred_spans),
     gold |-> acc.gold + Len(gold_spans),
     correct |-> acc.correct
                 + Cardinality(SpanSet(pred_spans) \cap SpanSet(gold_spans))]

\* percentages are kept in hundredths of a percent, rounded down
Pct100 == 100 * 100
\* mutant: the factor 2 of the harmonic mean is missing
F1NoFactor(p, r) == IF p + r > 0 THEN (p * r) \div (p + r) ELSE 0
\* f1 = 2 * precision * recall / (precision + recall), 0 when both are 0
F1(p, r) == IF p + r > 0 THEN (2 * p * r) \div (p + r) ELSE 0
finalize(acc) ==
    LET p == IF acc.predicted > 0
             THEN (Pct100 * acc.correct) \div acc.predicted ELSE 0
        r == IF acc.gold > 0
             THEN (Pct100 * acc.correct) \div acc.gold ELSE 0
    IN  Score(p, r, F1(p, r))

trainvars == <<config, epoch, batch_idx, global_step, pc, error, best_scores,
               best_epoch, results, score, lr, files, observers>>

\* score_pass takes the next record of the pass
ScoreRecord ==
    /\ sc_pc = "idle"
    /\ sc_n < MaxRecords
    /\ \E pred \in TagSeqs, gold \in TagSeqs, length \in 0..MaxTagLen :
         /\ sc_pred' = pred
         /\ sc_gold' = gold
         /\ sc_len' = length
         /\ sc_pred_spans' = extract_entities(pred, length)
         /\ sc_gold_spans' = extract_entities(gold, length)
         /\ sc_acc' = Accumulate(sc_acc, extract_entities(pred, length),
                                 extract_entities(gold, length))
         /\ sc_exact' = (sc_exact /\ pred = gold)
    /\ sc_n' = sc_n + 1
    /\ sc_pc' = "scored"
    /\ UNCHANGED <<sc_out, trainvars>>

\* the loop over the records moves on: the record and its spans are dropped
NextRecord ==
    /\ sc_pc = "scored"
    /\ sc_pc' = "idle"
    /\ sc_pred' = <<>>
    /\ sc_gold' = <<>>
    /\ sc_len' = 0
    /\ sc_pred_spans' = <<>>
    /\ sc_gold_spans' = <<>>
    /\ UNCHANGED <<sc_acc, sc_n, sc_exact, sc_out, trainvars>>

\* the pass is over: finalize
Finalize ==
    /\ sc_pc = "scored"
    /\ sc_out' = finalize(sc_acc)
    /\ sc_pc' = "final"
    /\ UNCHANGED <<sc_pred, sc_gold, sc_len, sc_pred_spans, sc_gold_spans,
                   sc_acc, sc_n, sc_exact, trainvars>>

InitScorer ==
    /\ train_len = 1
    /\ batch_size = 1
    /\ max_epoch = 1
    /\ eval_step_arg = 0 - 1
    /\ TrainingStart
    /\ ScorerIdle

NextScorer == ScoreRecord \/ NextRecord \/ Finalize

SpecScorer == InitScorer /\ [][NextScorer]_vars

\* ------------------------------------------------------------------ claims
\* the evaluation that began last has measured its dev scores / is complete
DevMeasured == eval_count > 0 /\ pc # "DevPass"
EvalDone == eval_count > 0 /\ pc \in {"Running", "Finished"}
\* the latest evaluation's dev F1 beat the best dev F1 it started from
Improving == dev_measured.f > pre.best.dev.f
\* file f was written by the latest evaluation
WrittenNow(f) == f.status = "complete" /\ f.step = results.step

ExampleBest == <<5, 8, 8, 12>>

\* C1: after each evaluation best_scores.test is the test score measured at
\* that evaluation if its dev F1 strictly exceeded the best dev F1 it
\* started from, and otherwise what it was before the evaluation (so, by
\* induction, the test scores of the most recent improving evaluation, and
\* zero while there was none); along dev F1 10, 20, 15, 25 with test F1
\* 5, 8, 30, 12 its f is 5, 8, 8, 12.
C1_TestFollowsDevBest ==
    /\ (eval_count > 0 /\ pc \in {"SetLR", "Running", "Finished"}) =>
          best_scores.test = IF Improving THEN results.score
                             ELSE pre.best.test
    /\ (n_improving = 0 => best_scores.test = ZeroScore)
    /\ (EvalDone /\ scen \in 1..Len(ExampleBest)) =>
          best_scores.test.f = ExampleBest[scen]

\* the whole example has run: the test F1 30 was measured and not recorded
C1_Witness ==
    /\ pc = "Running"
    /\ scen = Len(ExampleBest)
    /\ best_scores.test.f = 12

\* C2: back in Running after an evaluation, the scores inside the on-disk
\* checkpoint equal the in-memory best dev and best test scores.
C2_CheckpointScoresMatchMemory ==
    (EvalDone /\ best_model_file.status = "complete") =>
        /\ best_model_file.scores.dev = best_scores.dev
        /\ best_model_file.scores.test = best_scores.test

\* C3: an evaluation (over)writes the checkpoint and the dev result file if
\* and only if its dev F1 is strictly greater than the best dev F1 before
\* it; then best_scores.dev is exactly its (p, r, f); a dev F1 equal to the
\* best persists nothing.
C3_PersistIffStrictImprovement ==
    (eval_count > 0
     /\ pc \in {"TestPass", "TestUpdate", "SaveTest", "SetLR", "Running",
                "Finished"}) =>
        IF Improving
        THEN /\ best_model_file.status = "complete"
             /\ best_model_file.step = results.step
             /\ WrittenNow(dev_result_file)
             /\ best_scores.dev = dev_measured
        ELSE /\ best_model_file = pre.ckpt
             /\ dev_result_file = pre.dev
             /\ best_scores.dev = pre.best.dev

\* an evaluation whose dev F1 equalled a non-zero best has completed and
\* the checkpoint of the earlier step is still the one on disk
C3_Witness ==
    /\ EvalDone
    /\ dev_measured.f = pre.best.dev.f
    /\ dev_measured.f > 0
    /\ best_model_file = pre.ckpt
    /\ best_model_file.step < results.step

\* C4: an evaluation whose dev F1 is no strict improvement leaves the best
\* dev and test scores, the checkpoint and both result files as they were
\* when it began, whatever its test pass measures.
C4_NonImprovingChangesNothing ==
    (DevMeasured /\ ~Improving) =>
        /\ best_scores = pre.best
        /\ best_model_file = pre.ckpt
        /\ dev_result_file = pre.dev
        /\ test_result_file = pre.test

\* a non-improving evaluation has completed whose test F1 is above the
\* recorded one, and only the learning rate differs from before it
C4_Witness ==
    /\ EvalDone
    /\ ~Improving
    /\ results.set = "test"
    /\ results.score.f > best_scores.test.f
    /\ best_scores.test.f > 0
    /\ lr # pre.lr

\* C5: when the checkpoint write, a result file write or the test pass of an
\* evaluation fails, the best scores, the checkpoint and both result files
\* hold their values from before that evaluation.
C5_UpdateAllOrNothing ==
    (pc = "Crashed" /\ error = "IOError") =>
        /\ best_scores = pre.best
        /\ best_model_file = pre.ckpt
        /\ dev_result_file = pre.dev
        /\ test_result_file = pre.test

\* C6: when the process is terminated, the checkpoint location holds the
\* complete previous checkpoint (or nothing) or the complete new one.
C6_CheckpointWriteAtomic ==
    pc = "Killed" => best_model_file.status \in {"absent", "complete"}

\* C7: the number of evaluations entered so far is the number of steps s
\* up to global_step with s mod eval_step = 0 or s = total_step: an
\* evaluation follows such a step, once, and no other step.
C7_EvalExactlyAtTrigger ==
    eval_step # 0 =>
        eval_count = Cardinality({s \in 1..global_step :
                                    s % eval_step = 0 \/ s = total_step})

\* the final step, also a multiple of eval_step, has entered its one
\* evaluation, and an earlier step entered none
C7_Witness ==
    /\ pc = "DevPass"
    /\ eval_step # 0
    /\ global_step = total_step
    /\ global_step % eval_step = 0
    /\ eval_count < global_step

\* C8: every epoch iterates exactly batch_step mini-batches, global_step
\* never exceeds total_step, and it equals total_step at Finished.
C8_TotalStepIsStepsExecuted ==
    /\ batch_idx <= batch_step
    /\ global_step <= total_step
    /\ (pc = "Finished" => global_step = total_step)

\* C9: with args.eval_step = -1, at the end of every epoch exactly one
\* evaluation has occurred in it, after its last mini-batch.
C9_OneEvalPerEpochAtEnd ==
    (eval_step_arg = 0 - 1 /\ pc = "Running" /\ epoch < max_epoch
     /\ batch_idx = NumBatches) =>
        /\ epoch_evals = 1
        /\ last_eval_batch = NumBatches

\* C10: global_step starts at 0 and is the number of mini-batches processed
\* over all epochs; only a training step changes it, by +1, and no step of
\* the evaluation block or epoch boundary does.
C10_GlobalStepCounts ==
    /\ [](global_step = epoch * NumBatches + batch_idx)
    /\ [][\/ global_step' = global_step
          \/ /\ pc = "Running"
             /\ batch_idx' = batch_idx + 1
             /\ global_step' = global_step + 1]_vars

\* an epoch boundary and an evaluation lie behind, global_step kept counting
C10_Witness ==
    /\ pc = "Running"
    /\ epoch >= 1
    /\ batch_idx >= 1
    /\ eval_count >= 1
    /\ global_step > NumBatches

\* positions of the control thread inside the evaluation block
EvalPcs == {"DevPass", "DevUpdate", "SaveCkptOpen", "SaveCkptWrite",
            "SaveDev", "TestPass", "TestUpdate", "SaveTest", "SetLR"}
\* the dev half of the latest evaluation (lines 163-180) is behind
AfterDevHalf ==
    eval_count > 0
    /\ pc \in {"TestPass", "TestUpdate", "SaveTest", "SetLR", "Running",
               "Finished"}

\* C11: the learning rate is args.lr until the first evaluation completes;
\* after an evaluation it is the rate computed from that evaluation's
\* global_step, for every training step up to the next evaluation; inside
\* an evaluation it is still the rate the preceding training steps used.
C11_LrSetOnlyByEvaluation ==
    /\ pc \in {"Running", "Finished"} =>
          lr = IF eval_count = 0 THEN BaseLr ELSE calculate_lr(results.step)
    /\ pc \in EvalPcs => lr = pre.lr

\* training steps have run since the second evaluation, at its rate
C11_Witness ==
    /\ pc = "Running"
    /\ eval_count >= 2
    /\ global_step > results.step
    /\ lr = calculate_lr(results.step)
    /\ lr < pre.lr

\* C12: the learning rate is always within [0.01 * args.lr, args.lr], is
\* never above the rate in effect before the latest evaluation, and is
\* exactly 0.01 * args.lr after an evaluation at global_step >= total_step.
C12_LrBoundedMonotoneFloor ==
    /\ lr >= LrScale
    /\ lr <= 100 * LrScale
    /\ lr <= pre.lr
    /\ (EvalDone /\ results.step >= total_step) => lr = LrScale

\* an evaluation at a step beyond total_step has set the floor rate
C12_Witness ==
    /\ EvalDone
    /\ total_step > 0
    /\ results.step > total_step
    /\ lr = LrScale
    /\ pre.lr = LrScale

\* the order of the evaluation block
EvalOrder ==
    {<<"DevPass", "DevUpdate">>, <<"DevUpdate", "SaveCkptOpen">>,
     <<"DevUpdate", "TestPass">>, <<"SaveCkptOpen", "SaveCkptWrite">>,
     <<"SaveCkptWrite", "SaveDev">>, <<"SaveDev", "TestPass">>,
     <<"TestPass", "TestUpdate">>, <<"TestUpdate", "SaveTest">>,
     <<"TestUpdate", "SetLR">>, <<"SaveTest", "SetLR">>,
     <<"SetLR", "Running">>}

\* C13: an evaluation runs the dev pass, the comparison (with the checkpoint
\* and dev file writes exactly when improving), the test pass (always), the
\* conditional test update and file write, and the learning-rate update, in
\* this order; it is entered only by a training step, and while it runs
\* global_step, the batch position and the epoch do not move.
C13_EvaluationOrder ==
    /\ [](EvalDone => results.set = "test")
    /\ [][/\ (pc \in EvalPcs /\ pc' \notin {pc, "Crashed", "Killed"}) =>
                <<pc, pc'>> \in EvalOrder
          /\ pc \in EvalPcs =>
                /\ global_step' = global_step
                /\ batch_idx' = batch_idx
                /\ epoch' = epoch
          /\ (pc' = "DevPass" /\ pc # "DevPass") =>
                pc = "Running" /\ global_step' = global_step + 1
          /\ (pc = "DevUpdate" /\ pc' = "SaveCkptOpen") => Improving
          /\ (pc = "DevUpdate" /\ pc' = "TestPass") => ~Improving
          /\ (pc = "TestUpdate" /\ pc' = "SaveTest") => Improving
          /\ (pc = "TestUpdate" /\ pc' = "SetLR") => ~Improving]_vars

\* a non-improving evaluation has just completed, its test pass included
C13_Witness ==
    /\ pc = "Running"
    /\ eval_count >= 2
    /\ ~Improving
    /\ results.set = "test"
    /\ results.step = global_step
    /\ lr # pre.lr

\* C14: the checkpoint on disk holds the model parameters and the optimizer
\* state (its step count and its learning rate) that were in effect at the
\* global_step at which it was saved.
C14_CheckpointIsSnapshotAtSave ==
    best_model_file.status = "complete" =>
        /\ best_model_file.model = best_model_file.step
        /\ best_model_file.optimizer.step = best_model_file.step
        /\ (best_model_file.step = results.step =>
               best_model_file.optimizer.lr = pre.lr)

\* C17: best_scores.dev.f is the maximum of 0 and every dev F1 measured so
\* far (once the comparison of the current evaluation has run); it is
\* never below its value before the latest evaluation, and it is above it
\* exactly when that evaluation wrote the checkpoint.
C17_BestDevIsRunningMax ==
    /\ pc \notin {"DevUpdate", "Crashed", "Killed"} =>
          best_scores.dev.f = max_dev_seen
    /\ best_scores.dev.f >= pre.best.dev.f
    /\ AfterDevHalf =>
          (best_scores.dev.f > pre.best.dev.f
             <=> /\ best_model_file.status = "complete"
                 /\ best_model_file.step = results.step)

\* two improving evaluations and then a lower one: the best stays the max
C17_Witness ==
    /\ EvalDone
    /\ n_improving = 2
    /\ eval_count = 3
    /\ dev_measured.f < best_scores.dev.f
    /\ dev_measured.f > 0
    /\ best_model_file.step < results.step

\* C18: in Running (and Finished) the checkpoint and both result files
\* either all do not exist, and the best dev F1 is 0, or all are complete
\* and written at the same step, and the best dev F1 is above 0.
C18_FilesAllOrNone ==
    pc \in {"Running", "Finished"} =>
        \/ /\ best_model_file.status = "absent"
           /\ dev_result_file.status = "absent"
           /\ test_result_file.status = "absent"
           /\ best_scores.dev.f = 0
        \/ /\ best_model_file.status = "complete"
           /\ dev_result_file.status = "complete"
           /\ test_result_file.status = "complete"
           /\ dev_result_file.step = best_model_file.step
           /\ test_result_file.step = best_model_file.step
           /\ best_scores.dev.f > 0

\* a run whose every dev F1 was 0 has finished without any file
C18_Witness ==
    /\ pc = "Finished"
    /\ eval_count >= 2
    /\ max_dev_seen = 0
    /\ best_model_file = NoCheckpoint
    /\ dev_result_file = NoFile
    /\ test_result_file = NoFile

\* C19: a run that reaches Finished has evaluated after its last training
\* step.
C19_LastStepEvaluated ==
    pc = "Finished" => (eval_count > 0 /\ results.step = global_step)

\* C20: with args.eval_step = -1 the effective eval_step is at least 1 at
\* every training step, and the run raises no arithmetic error.
C20_EvalStepPositive ==
    (eval_step_arg = 0 - 1 /\ global_step >= 1) =>
        (eval_step >= 1 /\ error # "ZeroDivisionError")

\* every span lies in 0 .. length, and each ends before the next starts
WellFormedSpans(spans, length) ==
    /\ \A i \in 1..Len(spans) :
         /\ 0 <= spans[i].start
         /\ spans[i].start < spans[i].end
         /\ spans[i].end <= length
    /\ \A i \in 1..Len(spans), j \in 1..Len(spans) :
         i < j => spans[i].end <= spans[j].start
\* position i (0-based) holds an I tag with no span open before it
OrphanI(tags, i) ==
    tags[i + 1].bio = "I" /\ (i = 0 \/ tags[i].bio = "O")
\* tags with the orphan I tags written as B tags
OrphansAsB(tags) ==
    [i \in 1..Len(tags) |->
        IF OrphanI(tags, i - 1) THEN [tags[i] EXCEPT !.bio = "B"]
        ELSE tags[i]]

\* C15 (as stated): when every record of a pass has predicted tags equal to
\* its gold tags, finalize yields precision = recall = f1 = 100, all-O
\* passes included.
C15_ExactMatchGives100 ==
    (sc_pc = "final" /\ sc_exact) => sc_out = Score(Pct100, Pct100, Pct100)

\* C15 (amended): when every record of a pass has predicted tags equal to
\* its gold tags, finalize yields precision = recall = f1 = 100 if the pass
\* holds at least one entity, and 0, 0, 0 if it holds none.
C15_ExactMatchGives100OrZero ==
    (sc_pc = "final" /\ sc_exact) =>
        sc_out = IF sc_acc.gold > 0 THEN Score(Pct100, Pct100, Pct100)
                 ELSE ZeroScore

\* a two-record pass with equal tags and entities has been finalized
C15_Witness ==
    /\ sc_pc = "final"
    /\ sc_exact
    /\ sc_n = 2
    /\ sc_acc.gold >= 2
    /\ sc_out = Score(Pct100, Pct100, Pct100)

\* C16: for every tag list and every length up to its size, the spans
\* extract_entities returns lie within 0 .. length with start < end, do not
\* overlap and come in increasing start order; they are the same for every
\* tag list that agrees on the first length positions; and an I tag with no
\* open span starts a span, as the B tag in its place would.
C16_ExtractEntities ==
    sc_pc = "scored" =>
        /\ WellFormedSpans(sc_pred_spans, sc_len)
        /\ \A other \in TagSeqs :
             (\A i \in 1..sc_len : other[i] = sc_pred[i]) =>
                 extract_entities(other, sc_len) = sc_pred_spans
        /\ extract_entities(OrphansAsB(sc_pred), sc_len) = sc_pred_spans
        /\ \A i \in 0..(sc_len - 1) :
             OrphanI(sc_pred, i) =>
                 \E k \in 1..Len(sc_pred_spans) : sc_pred_spans[k].start = i

\* an orphan I tag opened a span, and a B tag in the padding was ignored
C16_Witness ==
    /\ sc_pc = "scored"
    /\ sc_len = 1
    /\ sc_pred[1] = TagI
    /\ sc_pred[2] = TagB
    /\ sc_pred_spans = <<Span("T", 0, 1)>>

====
